---- MODULE Spec2Model ----
(***************************************************************************)
(* Model of the crawl-and-analyze pipeline of website-analyzer:            *)
(*   src/src/lib/crawler.ts        analyzePage, crawlSite                  *)
(*   src/src/app/api/analyze/route.ts   GET (the NDJSON result stream)     *)
(*                                                                         *)
(* A URL string is a record [scheme, host, path, frag, form].  The field   *)
(* form tells whether the string is spelled the way the WHATWG URL         *)
(* serializer prints it ("canon": "https://a.com/") or some other way the  *)
(* parser accepts ("raw": "https://a.com", "HTTPS://A.COM/p1"), or is not  *)
(* parseable at all ("bad").  Two records are the same string iff they are *)
(* equal, exactly as Set<string>.has compares them.                        *)
(***************************************************************************)
EXTENDS Integers, Sequences, FiniteSets, TLC

(* ---------------- bounds of the model ---------------- *)
MaxPagesBound == 3
MaxDepthBound == 2
\* links on all the pages of one crawl together
MaxLinks == 2

(* ---------------- URL strings ---------------- *)
Url(s, h, p, f, m) == [scheme |-> s, host |-> h, path |-> p, frag |-> f, form |-> m]

Malformed == Url("", "", "", "", "bad")

StartHost == "a.com"

\* what the caller of crawlSite may pass: route.ts only checks that the
\* string parses, so it may lack the trailing slash or carry a fragment
StartUrls ==
    { Url("https", StartHost, "/", "", "canon"),
      Url("https", StartHost, "/", "", "raw"),
      Url("https", StartHost, "/", "#f", "canon") }

\* the values a.href can take on a page (document.links): a link back to the
\* start page with a fragment, a page of the site under either scheme, a
\* subdomain, another scheme, and an href that does not parse
LinkUniverse ==
    { Url("https", StartHost, "/", "#f", "canon"),
      Url("https", StartHost, "/p1", "", "canon"),
      Url("http", StartHost, "/p1", "", "canon"),
      Url("https", "sub.a.com", "/", "", "canon"),
      Url("ftp", StartHost, "/p1", "", "canon"),
      Malformed }

\* new URL(s) succeeds
Parses(u) == u.form # "bad"

\* new URL(s).toString(): the serializer's spelling of the same URL
Href(u) == [u EXCEPT !.form = "canon"]

\* new URL(s).hostname
Hostname(u) == u.host

\* new URL(s).protocol
Protocol(u) == u.scheme

\* s.split('#')[0]
StripFragment(u) == [u EXCEPT !.frag = ""]

\* the normalized form of a URL string: resolved to absolute, fragment stripped
Normalized(u) == StripFragment(Href(u))

(* ---------------- PageAnalysis ---------------- *)
NoError == [kind |-> "none", code |-> 0]
HttpError(c) == [kind |-> "HTTP", code |-> c]
Message == [kind |-> "message", code |-> 0]

ViewportsMutant == << "Desktop", "Mobile", "Tablet" >>
Viewports == << "Desktop", "Tablet", "Mobile" >>

StatusCodes == {200, 301, 404}

\* response.ok()
ResponseOkMutant(status) == TRUE
ResponseOk(status) == status >= 200 /\ status <= 299

\* the steps analyzePage drives on the page handle, in program order
StepSetViewport == 1
StepGoto == 2
StepEvaluate == 3
StepResize(i) == 2 + 2 * i
StepMeasure(i) == 3 + 2 * i
LastStep == 9

\* the behaviour of the rendering session for one page whose document has at
\* most n links: the step that throws (0: none), what page.goto resolves
\* with, and document.links; the links of a page are only read by the static
\* extraction of an analysis that runs to its end
Envs(n) ==
    [ failAt : 1 .. LastStep,
      nav : {"response", "timeout", "null"},
      status : StatusCodes,
      links : {<< >>} ]
    \cup
    [ failAt : {0},
      nav : {"response", "timeout", "null"},
      status : StatusCodes,
      links : UNION { [1 .. k -> LinkUniverse] : k \in 0 .. n } ]

Steps(n) == [i \in 1 .. n |-> i]

\* the catch block of analyzePage
CaughtMutant(url, steps) ==
    [ threw |-> TRUE, caught |-> steps[Len(steps)], steps |-> steps,
      report |-> [url |-> url, statusCode |-> 0, error |-> Message, links |-> << >>,
                  viewportIssues |-> << >>, contentMetrics |-> "absent", title |-> ""] ]
Caught(url, steps) ==
    [ threw |-> FALSE, caught |-> steps[Len(steps)], steps |-> steps,
      report |-> [url |-> url, statusCode |-> 0, error |-> Message, links |-> << >>,
                  viewportIssues |-> << >>, contentMetrics |-> "absent", title |-> ""] ]

\* the early return on a response that is not ok
HttpFailure(url, statusCode) ==
    [ threw |-> FALSE, caught |-> 0, steps |-> Steps(StepGoto),
      report |-> [url |-> url, statusCode |-> statusCode, error |-> HttpError(statusCode),
                  links |-> << >>, viewportIssues |-> << >>, contentMetrics |-> "absent",
                  title |-> ""] ]

\* the final return
AnalyzedMutant(url, statusCode, env) ==
    [ threw |-> FALSE, caught |-> 0, steps |-> Steps(LastStep),
      report |-> [url |-> url, statusCode |-> statusCode, error |-> NoError,
                  links |-> env.links,
                  viewportIssues |-> [i \in 1 .. 3 |-> [viewport |-> Viewports[i]]],
                  contentMetrics |-> "absent", title |-> "title"] ]
Analyzed(url, statusCode, env) ==
    [ threw |-> FALSE, caught |-> 0, steps |-> Steps(LastStep),
      report |-> [url |-> url, statusCode |-> statusCode, error |-> NoError,
                  links |-> env.links,
                  viewportIssues |-> [i \in 1 .. 3 |-> [viewport |-> Viewports[i]]],
                  contentMetrics |-> "present", title |-> "title"] ]

\* the value of the local response after the navigation: the status of the
\* response page.goto resolved with, 0 when it resolved with none or threw
Goto(env) ==
    IF env.failAt = StepSetViewport \/ env.failAt = StepGoto \/ env.nav # "response"
      THEN 0 ELSE env.status

\* the catch around page.goto: a TimeoutError is logged and dropped, any other
\* error is thrown again
GotoThrowsMutant(env) == env.failAt = StepGoto \/ env.nav = "timeout"
GotoThrows(env) == env.failAt = StepGoto

analyzePage(url, env) ==
    IF env.failAt = StepSetViewport THEN Caught(url, Steps(StepSetViewport))
    ELSE IF GotoThrows(env) THEN Caught(url, Steps(StepGoto))
    ELSE LET hasResponse == Goto(env) # 0
             statusCode == IF hasResponse THEN Goto(env) ELSE 0
         IN  IF hasResponse /\ ~ResponseOk(statusCode) THEN HttpFailure(url, statusCode)
             ELSE IF env.failAt # 0 THEN Caught(url, Steps(env.failAt))
             ELSE Analyzed(url, statusCode, env)

(* ---------------- crawlSite and GET ---------------- *)
VARIABLES startUrl, options, visited, queue, pagesCrawled, allowedDomain,
          browser, closeCalls, openPages, cur, analysis, steps, response, caught,
          reports, depths, pc, fault, stream, lines,
          spell, arg, result

vars == << startUrl, options, visited, queue, pagesCrawled, allowedDomain,
           browser, closeCalls, openPages, cur, analysis, steps, response, caught,
           reports, depths, pc, fault, stream, lines, spell, arg, result >>

\* the process-wide spell checker, and the input and the output of the
\* computations that are checked on their own
auxVars == << spell, arg, result >>

crawlVars == << visited, queue, pagesCrawled, cur, analysis, steps, response, caught,
               reports, depths >>

\* the number of links on the pages reported so far
RECURSIVE LinkCount(_)
LinkCount(rs) == IF rs = << >> THEN 0 ELSE Len(Head(rs).links) + LinkCount(Tail(rs))

\* const queue = [{ url: startUrl, depth: 0 }]
SeedMutant(url) == << >>
Seed(url) == << [url |-> url, depth |-> 0] >>

NoEntry == [url |-> Malformed, depth |-> 0]
NoAnalysis == Caught(Malformed, Steps(StepSetViewport)).report

Init ==
    /\ startUrl \in StartUrls
    /\ options \in [maxPages : 1 .. MaxPagesBound, maxDepth : 0 .. MaxDepthBound]
    /\ visited = {}
    /\ queue = Seed(startUrl)
    /\ pagesCrawled = 0
    /\ allowedDomain = ""
    /\ browser = "none"
    /\ closeCalls = 0
    /\ openPages = 0
    /\ cur = NoEntry
    /\ analysis = NoAnalysis
    /\ steps = << >>
    /\ response = 0
    /\ caught = 0
    /\ reports = << >>
    /\ depths = << >>
    /\ pc = "launch"
    /\ fault = "none"
    /\ stream = "readable"
    /\ lines = << >>
    /\ spell = "loading"
    /\ arg = << >>
    /\ result = << >>

\* puppeteer.launch resolves; new URL(startUrl).hostname
Launch ==
    /\ pc = "launch"
    /\ browser' = "open"
    /\ allowedDomain' = Hostname(startUrl)
    /\ pc' = "loop"
    /\ UNCHANGED << auxVars, startUrl, options, crawlVars, closeCalls, openPages, fault, stream, lines >>

\* puppeteer.launch rejects: the generator throws before its try block
LaunchFails ==
    /\ pc = "launch"
    /\ fault' = "launch"
    /\ pc' = "done"
    /\ UNCHANGED << auxVars, startUrl, options, crawlVars, allowedDomain, browser, closeCalls,
                    openPages, stream, lines >>

\* while (queue.length > 0 && pagesCrawled < options.maxPages)
LoopGuardMutant(q, n, maxPages) == Len(q) > 0 /\ n <= maxPages
LoopGuard(q, n, maxPages) == Len(q) > 0 /\ n < maxPages

\* the loop exits normally
LoopExit ==
    /\ pc = "loop"
    /\ ~LoopGuard(queue, pagesCrawled, options.maxPages)
    /\ pc' = "finally"
    /\ UNCHANGED << auxVars, startUrl, options, crawlVars, allowedDomain, browser, closeCalls,
                    openPages, fault, stream, lines >>

\* queue.shift(): the queue without its head
ShiftMutant(q) == q
Shift(q) == Tail(q)

\* queue.shift(); if (visited.has(url)) continue
DiscardMutant ==
    /\ pc = "loop"
    /\ LoopGuard(queue, pagesCrawled, options.maxPages)
    /\ Head(queue).url \in visited
    /\ queue' = Shift(queue)
    /\ pagesCrawled' = pagesCrawled + 1
    /\ UNCHANGED << auxVars, startUrl, options, visited, cur, analysis, steps,
                    response, caught, reports,
                    depths, allowedDomain, browser, closeCalls, openPages, pc, fault,
                    stream, lines >>
Discard ==
    /\ pc = "loop"
    /\ LoopGuard(queue, pagesCrawled, options.maxPages)
    /\ Head(queue).url \in visited
    /\ queue' = Shift(queue)
    /\ UNCHANGED << auxVars, startUrl, options, visited, pagesCrawled, cur, analysis, steps,
                    response, caught, reports,
                    depths, allowedDomain, browser, closeCalls, openPages, pc, fault,
                    stream, lines >>

\* visited.add(url)
MarkMutant(seen, url) == seen
Mark(seen, url) == seen \cup {url}

\* queue.shift(); visited.add(url)
Dequeue ==
    /\ pc = "loop"
    /\ LoopGuard(queue, pagesCrawled, options.maxPages)
    /\ Head(queue).url \notin visited
    /\ cur' = Head(queue)
    /\ queue' = Shift(queue)
    /\ visited' = Mark(visited, Head(queue).url)
    /\ pc' = "newPage"
    /\ UNCHANGED << auxVars, startUrl, options, pagesCrawled, analysis, steps, response, caught,
                    reports, depths, allowedDomain, browser, closeCalls, openPages,
                    fault, stream, lines >>

\* browser.newPage()
NewPage ==
    /\ pc = "newPage"
    /\ \/ openPages' = openPages + 1 /\ pc' = "intercept" /\ fault' = fault
       \/ openPages' = openPages /\ pc' = "finally" /\ fault' = "newPage"
    /\ UNCHANGED << auxVars, startUrl, options, crawlVars, allowedDomain, browser, closeCalls,
                    stream, lines >>

\* page.setRequestInterception(true); page.on('request', ...)
SetRequestInterception ==
    /\ pc = "intercept"
    /\ \/ pc' = "analyze" /\ fault' = fault
       \/ pc' = "finally" /\ fault' = "setRequestInterception"
    /\ UNCHANGED << auxVars, startUrl, options, crawlVars, allowedDomain, browser, closeCalls,
                    openPages, stream, lines >>

\* const analysis = await analyzePage(page, url)
Analyze ==
    /\ pc = "analyze"
    /\ \E env \in Envs(MaxLinks - LinkCount(reports)) :
          LET r == analyzePage(cur.url, env)
          IN  /\ analysis' = r.report
              /\ steps' = r.steps
              /\ response' = Goto(env)
              /\ caught' = r.caught
              /\ IF r.threw
                   THEN pc' = "finally" /\ fault' = "analyzePage"
                   ELSE pc' = "closePage" /\ fault' = fault
    /\ UNCHANGED << auxVars, startUrl, options, visited, queue, pagesCrawled, cur, reports, depths,
                    allowedDomain, browser, closeCalls, openPages, stream, lines >>

\* page.close() resolves: the handle is released
ClosePageMutant(n) == n
ClosePage(n) == n - 1

\* await page.close(); pagesCrawled++; yield analysis
\* (analyzePage has returned: its locals are gone)
Yield ==
    /\ pc = "closePage"
    /\ \/ /\ openPages' = ClosePage(openPages)
          /\ pagesCrawled' = pagesCrawled + 1
          /\ reports' = Append(reports, analysis)
          /\ depths' = Append(depths, cur.depth)
          /\ pc' = "yielded"
          /\ fault' = fault
       \/ /\ pc' = "finally"
          /\ fault' = "pageClose"
          /\ UNCHANGED << openPages, pagesCrawled, reports, depths >>
    /\ steps' = << >>
    /\ response' = 0
    /\ caught' = 0
    /\ UNCHANGED << auxVars, startUrl, options, visited, queue, cur, analysis,
                    allowedDomain, browser, closeCalls, stream, lines >>

\* JSON.stringify(result) + '\n': the members of the report that are defined,
\* followed by a newline
JSONLine(r) ==
    [ json |-> [k \in {"url", "title", "statusCode", "links", "viewportIssues"}
                       \cup (IF r.error = NoError THEN {} ELSE {"error"})
                       \cup (IF r.contentMetrics = "absent" THEN {} ELSE {"contentMetrics"})
                  |-> r[k]],
      end |-> "\n" ]

\* controller.enqueue(chunk) on a readable stream
EnqueueChunkMutant(chunks, chunk) == << chunk >> \o chunks
EnqueueChunk(chunks, chunk) == Append(chunks, chunk)

\* controller.enqueue(encoder.encode(JSON.stringify(result) + '\n')), then the
\* next pull; enqueue throws once the stream is no longer readable, and
\* for await then calls the generator's return()
Enqueue ==
    /\ pc = "yielded"
    /\ IF stream = "readable"
         THEN /\ lines' = EnqueueChunk(lines, JSONLine(reports[Len(reports)]))
              /\ pc' = "resumed"
              /\ fault' = fault
         ELSE lines' = lines /\ pc' = "finally" /\ fault' = "enqueue"
    /\ UNCHANGED << auxVars, startUrl, options, crawlVars, allowedDomain, browser, closeCalls,
                    openPages, stream >>

\* if (depth < options.maxDepth)
DepthAllowsMutant(depth, maxDepth) == depth <= maxDepth
DepthAllows(depth, maxDepth) == depth < maxDepth

\* urlObj.protocol === 'http:' || urlObj.protocol === 'https:'
WebSchemeMutant(protocol) == TRUE
WebScheme(protocol) == protocol = "http" \/ protocol = "https"

\* urlObj.hostname === allowedDomain && (protocol is http: or https:)
SameSiteMutant(urlObj, allowed) == Protocol(urlObj) = "http" \/ Protocol(urlObj) = "https"
SameSite(urlObj, allowed) ==
    Hostname(urlObj) = allowed /\ WebScheme(Protocol(urlObj))

\* queue.push(entry)
PushMutant(q, entry) == << entry >> \o q
Push(q, entry) == Append(q, entry)

\* catch (e) { } inside the loop: the loop goes on with the links that are left
ContinueMutant(rest) == << >>
Continue(rest) == rest

\* the body of for (const link of analysis.links), folded over the links
RECURSIVE Admit(_, _, _, _, _)
Admit(links, q, seen, allowed, depth) ==
    IF links = << >> THEN q
    ELSE LET link == Head(links)
             rest == Tail(links)
         IN  IF ~Parses(link) THEN Admit(Continue(rest), q, seen, allowed, depth)
             ELSE LET absoluteUrl == Href(link)
                      cleanUrl == StripFragment(absoluteUrl)
                  IN  IF SameSite(absoluteUrl, allowed) /\ cleanUrl \notin seen
                        THEN Admit(rest, Push(q, [url |-> cleanUrl, depth |-> depth + 1]),
                                   seen, allowed, depth)
                        ELSE Admit(rest, q, seen, allowed, depth)

\* the generator resumes after yield and runs to the loop head
Resume ==
    /\ pc = "resumed"
    /\ queue' = IF DepthAllows(cur.depth, options.maxDepth)
                  THEN Admit(analysis.links, queue, visited, allowedDomain, cur.depth)
                  ELSE queue
    /\ pc' = "loop"
    /\ UNCHANGED << auxVars, startUrl, options, visited, pagesCrawled, cur, analysis, steps,
                    response, caught, reports,
                    depths, allowedDomain, browser, closeCalls, openPages, fault,
                    stream, lines >>

\* finally { await browser.close() }
CloseBrowserMutant(b) == b
CloseBrowser(b) == "closed"

\* browser.close() closes the browser with every page that is open in it
ClosePagesMutant(n) == n
ClosePages(n) == 0

Finally ==
    /\ pc = "finally"
    /\ browser' = CloseBrowser(browser)
    /\ openPages' = ClosePages(openPages)
    /\ closeCalls' = closeCalls + 1
    /\ pc' = "done"
    /\ UNCHANGED << auxVars, startUrl, options, crawlVars, allowedDomain, fault,
                    stream, lines >>

\* controller.close() after the loop, controller.error(error) in the catch;
\* both leave a stream alone that is no longer readable
TerminalMutant(f) == "closed"
Terminal(f) == IF f = "none" THEN "closed" ELSE "errored"

\* controller.close() throws and controller.error() does nothing on a stream
\* that is no longer readable
SettleMutant(s, f) == Terminal(f)
Settle(s, f) == IF s = "readable" THEN Terminal(f) ELSE s

Finish ==
    /\ pc = "done"
    /\ stream' = Settle(stream, fault)
    /\ pc' = "ended"
    /\ UNCHANGED << auxVars, startUrl, options, crawlVars, allowedDomain, browser, closeCalls,
                    openPages, fault, lines >>

\* the client cancels the response body while the crawl is running; the route
\* has no cancel callback and meets the cancellation where it next uses the
\* controller, which is where the model places it
Cancel ==
    /\ pc \in {"yielded", "done"}
    /\ stream = "readable"
    /\ stream' = "cancelled"
    /\ UNCHANGED << auxVars, startUrl, options, crawlVars, allowedDomain, browser, closeCalls,
                    openPages, pc, fault, lines >>

Next ==
    \/ Launch
    \/ LaunchFails
    \/ LoopExit
    \/ Discard
    \/ Dequeue
    \/ NewPage
    \/ SetRequestInterception
    \/ Analyze
    \/ Yield
    \/ Enqueue
    \/ Resume
    \/ Finally
    \/ Finish
    \/ Cancel

Spec == Init /\ [][Next]_vars

\* every step of the crawl is an awaited operation that settles, and the
\* for-await loop of the route pulls the next report as soon as it has
\* enqueued the last one: a step that can be taken is taken
FairSpec == Spec /\ WF_vars(Next)

(* ---------------- computations checked on their own ---------------- *)
\* no crawl is running: the state of a crawl that has not been constructed
Idle ==
    /\ startUrl = Malformed
    /\ options = [maxPages |-> 1, maxDepth |-> 0]
    /\ visited = {}
    /\ queue = << >>
    /\ pagesCrawled = 0
    /\ allowedDomain = ""
    /\ browser = "none"
    /\ closeCalls = 0
    /\ openPages = 0
    /\ cur = NoEntry
    /\ analysis = NoAnalysis
    /\ steps = << >>
    /\ response = 0
    /\ caught = 0
    /\ reports = << >>
    /\ depths = << >>
    /\ fault = "none"
    /\ stream = "readable"
    /\ lines = << >>

idleVars == << startUrl, options, crawlVars, allowedDomain, browser, closeCalls, openPages,
               fault, stream, lines >>

(* ---------------- GET: the maxPages parameter ---------------- *)
MaxParamLen == 3

DigitChars == {"0", "1", "2"}
ParamChars == DigitChars \cup {"-", "a", " "}
Strings(chars, n) == UNION { [1 .. k -> chars] : k \in 0 .. n }

\* searchParams.get('maxPages'): null when the parameter is absent, else its text
Null == [present |-> FALSE, text |-> << >>]
Str(t) == [present |-> TRUE, text |-> t]
MaxPagesParams == {Null} \cup { Str(t) : t \in Strings(ParamChars, MaxParamLen) }

\* a number of JavaScript: NaN or an integer
NaN == [nan |-> TRUE, val |-> 0]
Num(n) == [nan |-> FALSE, val |-> n]

DigitValue(c) == CASE c = "0" -> 0 [] c = "1" -> 1 [] c = "2" -> 2

RECURSIVE TrimStart(_)
TrimStart(t) == IF t # << >> /\ Head(t) = " " THEN TrimStart(Tail(t)) ELSE t

RECURSIVE DigitPrefix(_)
DigitPrefix(t) ==
    IF t # << >> /\ Head(t) \in DigitChars
      THEN << Head(t) >> \o DigitPrefix(Tail(t))
      ELSE << >>

RECURSIVE Decimal(_)
Decimal(ds) ==
    IF ds = << >> THEN 0
    ELSE 10 * Decimal(SubSeq(ds, 1, Len(ds) - 1)) + DigitValue(ds[Len(ds)])

\* parseInt(t, 10): leading white space is skipped, then an optional sign and
\* the longest run of digits are read; NaN when there is no digit there
parseInt(t) ==
    LET s == TrimStart(t)
        negative == s # << >> /\ Head(s) = "-"
        body == IF negative THEN Tail(s) ELSE s
        ds == DigitPrefix(body)
    IN  IF ds = << >> THEN NaN
        ELSE Num(IF negative THEN 0 - Decimal(ds) ELSE Decimal(ds))

\* Math.max and Math.min return NaN when an argument is NaN
MathMax(a, b) ==
    IF a.nan \/ b.nan THEN NaN ELSE Num(IF a.val >= b.val THEN a.val ELSE b.val)
MathMin(a, b) ==
    IF a.nan \/ b.nan THEN NaN ELSE Num(IF a.val <= b.val THEN a.val ELSE b.val)

\* maxPagesParam || '20': null and the empty string are falsy
OrDefault(p, d) == IF p.present /\ p.text # << >> THEN p.text ELSE d

\* Math.min(Math.max(parseInt(maxPagesParam || '20', 10), 1), 100)
MaxPagesOf(p) == MathMin(MathMax(parseInt(OrDefault(p, << "2", "0" >>)), Num(1)), Num(100))

InitMaxPages ==
    /\ Idle
    /\ pc = "request"
    /\ spell = "loading"
    /\ arg \in MaxPagesParams
    /\ result = NaN

\* GET computes the maxPages it passes to crawlSite
ComputeMaxPages ==
    /\ pc = "request"
    /\ result' = MaxPagesOf(arg)
    /\ pc' = "computed"
    /\ UNCHANGED << idleVars, spell, arg >>

NextMaxPages == ComputeMaxPages

SpecMaxPages == InitMaxPages /\ [][NextMaxPages]_vars

(* ---------------- analyzePage: seoScore ---------------- *)
MaxHeadings == 2

\* the lengths of document.title and of the meta description, the numbers of
\* images without alt and of words: the values around the tests of the score
TitleLengths == {0, 9, 10, 60, 61}
MetaLengths == {0, 49, 50, 160, 161}
MissingAltCounts == {0, 1}
WordCounts == {1, 300, 301}

\* a heading element: its level (h1 .. h3) and its trimmed text, which is
\* empty, contains one of the top keywords, or does not
HeadingTexts == {"", "plain", "keyword"}
Headings == [level : 1 .. 3, text : HeadingTexts]
HeadingLists == UNION { [1 .. k -> Headings] : k \in 0 .. MaxHeadings }

\* the facts page.evaluate extracts, as far as seoScore reads them
StaticFacts ==
    [titleLen : TitleLengths, metaLen : MetaLengths, headings : HeadingLists,
     missingAltTags : MissingAltCounts, wordCount : WordCounts]

\* document.querySelector('h1')?.textContent?.trim() || null
H1Of(hs) ==
    LET ones == { i \in 1 .. Len(hs) : hs[i].level = 1 }
    IN  IF ones = {} THEN Null
        ELSE LET first == CHOOSE i \in ones : \A j \in ones : i <= j
             IN  IF hs[first].text = "" THEN Null ELSE Str(hs[first].text)

\* Math.min(100, n)
CapMutant(n) == n
Cap(n) == IF n > 100 THEN 100 ELSE n

\* the credit of a text that is in the range, or only not empty
LengthCredit(len, lo, hi) ==
    IF len > 0 /\ len >= lo /\ len <= hi THEN 20
    ELSE IF len > 0 THEN 10 ELSE 0

\* keywords.filter(k => headings.some(h => h.text.toLowerCase().includes(k.word))).length
KeywordsInHeadings(hs) ==
    IF \E i \in 1 .. Len(hs) : hs[i].text = "keyword" THEN 1 ELSE 0

\* the number of headings more than one level below the heading before them
RECURSIVE HierarchyIssues(_, _)
HierarchyIssues(hs, previousLevel) ==
    IF hs = << >> THEN 0
    ELSE (IF Head(hs).level > previousLevel + 1 THEN 1 ELSE 0)
            + HierarchyIssues(Tail(hs), Head(hs).level)

\* hierarchyIssues === 0 && staticAnalysis.headings.length > 0
HierarchyBonusMutant(hs) == HierarchyIssues(hs, 0) = 0
HierarchyBonus(hs) == HierarchyIssues(hs, 0) = 0 /\ Len(hs) > 0

\* seoScore after the keyword bonus, before the heading hierarchy check
SeoWithKeywords(f) ==
    LET base == LengthCredit(f.titleLen, 10, 60)
                + LengthCredit(f.metaLen, 50, 160)
                + (IF H1Of(f.headings).present THEN 20 ELSE 0)
                + (IF f.missingAltTags = 0 THEN 20 ELSE 0)
                + (IF f.wordCount > 300 THEN 20 ELSE 0)
    IN  IF KeywordsInHeadings(f.headings) > 0 THEN Cap(base + 10) ELSE base

seoScore(f) ==
    IF HierarchyBonus(f.headings)
      THEN Cap(SeoWithKeywords(f) + 10)
      ELSE SeoWithKeywords(f)

InitSeo ==
    /\ Idle
    /\ pc = "facts"
    /\ spell = "loading"
    /\ arg \in StaticFacts
    /\ result = 0

ComputeSeoScore ==
    /\ pc = "facts"
    /\ result' = seoScore(arg)
    /\ pc' = "computed"
    /\ UNCHANGED << idleVars, spell, arg >>

NextSeo == ComputeSeoScore

SpecSeo == InitSeo /\ [][NextSeo]_vars

(* ---------------- analyzePage: readabilityScore ---------------- *)
MaxTextLen == 5

\* the characters of the body text: two vowels, a consonant, white space and
\* the end of a sentence
Vowels == {"a", "e"}
Letters == Vowels \cup {"b"}
WhiteSpace == {" "}
SentenceEnds == {"."}
TextChars == Letters \cup WhiteSpace \cup SentenceEnds
Texts == Strings(TextChars, MaxTextLen)

\* t.split(/[seps]+/): the pieces of t between the runs of separators; a run at
\* the start or at the end leaves an empty piece there, and the empty text
\* has one empty piece
RECURSIVE SplitRuns(_, _, _, _, _)
SplitRuns(rest, seps, done, piece, inRun) ==
    IF rest = << >> THEN Append(done, piece)
    ELSE IF Head(rest) \in seps
      THEN IF inRun THEN SplitRuns(Tail(rest), seps, done, piece, TRUE)
           ELSE SplitRuns(Tail(rest), seps, Append(done, piece), << >>, TRUE)
      ELSE SplitRuns(Tail(rest), seps, done, Append(piece, Head(rest)), FALSE)
Split(t, seps) == SplitRuns(t, seps, << >>, << >>, FALSE)

\* n || 1
OrOneMutant(n) == n
OrOne(n) == IF n = 0 THEN 1 ELSE n

\* word.toLowerCase().replace(/[^a-z]/g, '').replace(/e$/, '')
Clean(word) ==
    LET letters == SelectSeq(word, LAMBDA c : c \in Letters)
    IN  IF letters # << >> /\ letters[Len(letters)] = "e"
          THEN SubSeq(letters, 1, Len(letters) - 1)
          ELSE letters

\* (clean.match(/[aeiouy]+/g) || []).length
VowelRuns(w) ==
    Cardinality({ i \in 1 .. Len(w) : w[i] \in Vowels /\ (i = 1 \/ w[i - 1] \notin Vowels) })

\* the syllables counted for one token
Syllables(word) == OrOne(VowelRuns(Clean(word)))

RECURSIVE Sum(_)
Sum(ns) == IF ns = << >> THEN 0 ELSE Head(ns) + Sum(Tail(ns))

\* Math.min(100, Math.max(0, x))
Clamp(x) == IF x < 0 THEN 0 ELSE IF x > 100 THEN 100 ELSE x

\* Math.round(206.835 - 1.015 * (w / s) - 84.6 * (y / w)), in thousandths over
\* the common denominator
Flesch(w, s, y) ==
    LET num == 206835 * s * w - 1015 * w * w - 84600 * y * s
        den == 1000 * s * w
    IN  (2 * num + den) \div (2 * den)

\* the content metrics of a body text, as far as the readability score reads
\* them. syllableCount / wordCount is never 0, so its || 1 changes nothing
Readability(t) ==
    LET words == Split(t, WhiteSpace)
        wordCount == Len(words)
        sentenceCount == OrOne(Len(Split(t, SentenceEnds)))
        syllables == [i \in 1 .. Len(words) |-> Syllables(words[i])]
        syllableCount == Sum(syllables)
    IN  [wordCount |-> wordCount,
         sentenceCount |-> sentenceCount,
         syllables |-> syllables,
         readabilityScore |-> Clamp(Flesch(wordCount, sentenceCount, syllableCount))]

InitReadability ==
    /\ Idle
    /\ pc = "text"
    /\ spell = "loading"
    /\ arg \in Texts
    /\ result = Readability(<< >>)

ComputeReadability ==
    /\ pc = "text"
    /\ result' = Readability(arg)
    /\ pc' = "computed"
    /\ UNCHANGED << idleVars, spell, arg >>

NextReadability == ComputeReadability

SpecReadability == InitReadability /\ [][NextReadability]_vars

(* ---------------- the spell checker of the process ---------------- *)
MaxWords == 2
MaxAnalyses == 2

\* the tokens of a body text: a word of the dictionary, a misspelled word, a
\* misspelled word of three letters, a token with a character that is no
\* letter, and a token that is empty once cleaned
Tokens == {"word", "wrod", "teh", "it's", "..."}
TokenLists == UNION { [1 .. k -> Tokens] : k \in 0 .. MaxWords }

\* word.replace(/[^\w'-]/g, '')
CleanWord(word) == IF word = "..." THEN "" ELSE word
\* /^[a-zA-Z]+$/.test(cleanWord)
Alphabetic(cleanWord) == cleanWord \in {"word", "wrod", "teh"}
\* cleanWord.length
Length(cleanWord) ==
    CASE cleanWord = "" -> 0
      [] cleanWord = "teh" -> 3
      [] OTHER -> 4
\* spell.correct(cleanWord)
Correct(cleanWord) == cleanWord = "word"

\* the truth value of spell: undefined until the dictionary is loaded, and for
\* ever when the load failed
HasSpellMutant(sp) == TRUE
HasSpell(sp) == sp = "loaded"

\* what the body of the loop over the words does with one word: nothing, or a
\* call of spell.correct, which throws when spell is undefined
CheckWord(sp, word) ==
    LET cleanWord == CleanWord(word)
    IN  IF cleanWord = "" THEN "skip"
        ELSE IF HasSpell(sp) /\ Alphabetic(cleanWord) /\ Length(cleanWord) > 3
          THEN IF sp # "loaded" THEN "throws"
               ELSE IF Correct(cleanWord) THEN "correct" ELSE "typo"
          ELSE "skip"

\* possibleTypos.add(cleanWord) for the words in order; a Set keeps the first
\* occurrence
RECURSIVE PossibleTypos(_, _, _)
PossibleTypos(sp, words, found) ==
    IF words = << >> THEN found
    ELSE LET w == CleanWord(Head(words))
             seen == \E i \in 1 .. Len(found) : found[i] = w
         IN  PossibleTypos(sp, Tail(words),
                 IF CheckWord(sp, Head(words)) = "typo" /\ ~seen
                   THEN Append(found, w) ELSE found)

\* Array.from(possibleTypos).slice(0, 5)
FirstFive(xs) == SubSeq(xs, 1, IF Len(xs) < 5 THEN Len(xs) ELSE 5)

\* the part of the report of a loaded page that the spell checker decides: an
\* exception in the loop over the words ends in the catch of analyzePage
ContentIssues(sp, words) ==
    IF \E i \in 1 .. Len(words) : CheckWord(sp, words[i]) = "throws"
      THEN [spell |-> sp, possibleTypos |-> << >>, error |-> Message]
      ELSE [spell |-> sp, possibleTypos |-> FirstFive(PossibleTypos(sp, words, << >>)),
            error |-> NoError]

InitSpell ==
    /\ Idle
    /\ pc = "process"
    /\ spell = "loading"
    /\ arg = << >>
    /\ result = << >>

\* the callback of dictionary() is called with a dictionary
DictionaryLoaded ==
    /\ spell = "loading"
    /\ spell' = "loaded"
    /\ UNCHANGED << idleVars, pc, arg, result >>

\* require throws, or the callback is called with an error or no dictionary
DictionaryFailed ==
    /\ spell = "loading"
    /\ spell' = "failed"
    /\ UNCHANGED << idleVars, pc, arg, result >>

\* analyzePage goes through the words of a page that loaded, in any crawl of
\* the process
AnalyzeContent ==
    /\ Len(result) < MaxAnalyses
    /\ \E words \in TokenLists :
          /\ arg' = words
          /\ result' = Append(result, ContentIssues(spell, words))
    /\ UNCHANGED << idleVars, pc, spell >>

NextSpell ==
    \/ DictionaryLoaded
    \/ DictionaryFailed
    \/ AnalyzeContent

SpecSpell == InitSpell /\ [][NextSpell]_vars

(* ---------------- analyzePage: one page in detail ---------------- *)
\* the width of each viewport of the sweep
ViewportWidths == << 1920, 768, 375 >>

\* what the measurement of viewport i can return: small tap targets are only
\* counted when the width is below 768
Issues(i) ==
    [horizontalScroll : BOOLEAN,
     overflowingElements : 0 .. 1,
     smallTapTargets : IF ViewportWidths[i] < 768 THEN 0 .. 1 ELSE {0}]

\* the behaviour of the rendering session for one page, with the result of
\* each measurement and the outcome of each page.screenshot
PageEnvs ==
    { [failAt |-> f, nav |-> n, status |-> c, links |-> << >>,
       issues |-> << d, t, m >>, shots |-> sh] :
        f \in 0 .. LastStep, n \in {"response", "timeout", "null"}, c \in StatusCodes,
        d \in Issues(1), t \in Issues(2), m \in Issues(3),
        sh \in [1 .. 3 -> {"saved", "fails"}] }

\* if (issues.horizontalScroll || issues.overflowingElements > 0)
TakesScreenshot(issues) == issues.horizontalScroll \/ issues.overflowingElements > 0

Undefined == [dir |-> "", viewport |-> ""]
\* `/screenshots/${filename}`
ScreenshotPath(i) == [dir |-> "/screenshots", viewport |-> Viewports[i]]

\* the entry pushed on viewportIssues at the end of iteration i
ViewportEntry(env, i) ==
    [viewport |-> Viewports[i],
     horizontalScroll |-> env.issues[i].horizontalScroll,
     overflowingElements |-> env.issues[i].overflowingElements,
     smallTapTargets |-> env.issues[i].smallTapTargets,
     screenshotPath |-> IF TakesScreenshot(env.issues[i]) /\ env.shots[i] = "saved"
                          THEN ScreenshotPath(i) ELSE Undefined]

Event(op, viewport) == [op |-> op, viewport |-> viewport]

\* what step k of the protocol does on the page handle
StepEvent(k) ==
    IF k = StepSetViewport THEN Event("setViewport", "")
    ELSE IF k = StepGoto THEN Event("goto", "")
    ELSE IF k = StepEvaluate THEN Event("evaluate", "")
    ELSE IF k % 2 = 0 THEN Event("resize", Viewports[(k - 2) \div 2])
    ELSE Event("measure", Viewports[(k - 3) \div 2])

\* the operations of an analysis that went through the steps 1 .. n, the
\* step that threw included, with the screenshots taken after the
\* measurements that returned
RECURSIVE Operations(_, _, _)
Operations(env, n, thrown) ==
    IF n = 0 THEN << >>
    ELSE LET i == (n - 3) \div 2
             shot == /\ n > StepEvaluate
                     /\ n % 2 = 1
                     /\ n # thrown
                     /\ TakesScreenshot(env.issues[i])
         IN  Operations(env, n - 1, thrown) \o << StepEvent(n) >>
                \o (IF shot THEN << Event("screenshot", Viewports[i]) >> ELSE << >>)

\* analyzePage with the entries of the sweep and the operations it performed
PageRun(url, env) ==
    LET run == analyzePage(url, env)
        scored == run.report.contentMetrics = "present"
    IN  [report |-> IF scored
                      THEN [run.report EXCEPT
                              !.viewportIssues = [i \in 1 .. 3 |-> ViewportEntry(env, i)]]
                      ELSE run.report,
         operations |-> Operations(env, Len(run.steps), run.caught)
                          \o (IF scored THEN << Event("score", "") >> ELSE << >>),
         caught |-> run.caught]

PageUrl == Url("https", StartHost, "/", "", "canon")

InitPage ==
    /\ Idle
    /\ pc = "page"
    /\ spell = "loading"
    /\ arg \in PageEnvs
    /\ result = PageRun(PageUrl, [failAt |-> StepSetViewport, nav |-> "null", status |-> 200,
                                   links |-> << >>])

RunPage ==
    /\ pc = "page"
    /\ result' = PageRun(PageUrl, arg)
    /\ pc' = "computed"
    /\ UNCHANGED << idleVars, spell, arg >>

NextPage == RunPage

SpecPage == InitPage /\ [][NextPage]_vars

(* ---------------- analyzePage: keywords ---------------- *)
MaxTokens == 6

\* the tokens of a body text: five words, one of them also capitalized and
\* followed by a comma, a word that names a property every object inherits,
\* a stop word and a word of three letters
KeywordTokens ==
    {"alpha", "Alpha,", "beta", "gamma", "delta", "epsilon", "constructor", "with", "cat"}
TokenTexts == UNION { [1 .. k -> KeywordTokens] : k \in 0 .. MaxTokens }

\* word.toLowerCase().replace(/[^a-z]/g, '')
Lowered(word) == IF word = "Alpha," THEN "alpha" ELSE word
\* clean.length > 3
LongEnough(clean) == clean # "cat"
\* stopWords.has(clean)
StopWords == {"with"}

\* a value of wordFreq: a number, or the text of a function followed by a
\* number of characters 1
Count(n) == [number |-> TRUE, value |-> n]
FunctionText(ones) == [number |-> FALSE, value |-> ones]

\* the own properties of wordFreq, in the order of their creation
Own(freq, key) == { i \in 1 .. Len(freq) : freq[i].word = key }

\* (wordFreq[clean] || 0) + 1: a key that wordFreq does not own is looked up
\* on Object.prototype, where constructor is a function; a function or a
\* text plus 1 is a text
Incremented(freq, key) ==
    IF Own(freq, key) # {}
      THEN LET old == freq[CHOOSE i \in Own(freq, key) : TRUE].count
           IN  IF old.number THEN Count(old.value + 1) ELSE FunctionText(old.value + 1)
      ELSE IF key = "constructor" THEN FunctionText(1) ELSE Count(1)

\* wordFreq[clean] = ...: an own property keeps its place, a new one is last
Assigned(freq, key, count) ==
    IF Own(freq, key) # {}
      THEN [i \in 1 .. Len(freq) |->
              IF freq[i].word = key THEN [word |-> key, count |-> count] ELSE freq[i]]
      ELSE Append(freq, [word |-> key, count |-> count])

RECURSIVE WordFreq(_, _)
WordFreq(words, freq) ==
    IF words = << >> THEN freq
    ELSE LET clean == Lowered(Head(words))
         IN  WordFreq(Tail(words),
                 IF LongEnough(clean) /\ clean \notin StopWords
                   THEN Assigned(freq, clean, Incremented(freq, clean))
                   ELSE freq)

\* the comparator ([, a], [, b]) => b - a says that a comes after b; a text
\* makes the difference NaN, which sort takes for 0
ComesAfter(a, b) == a.count.number /\ b.count.number /\ b.count.value - a.count.value > 0

\* Array.prototype.sort on a short array: a stable insertion sort
RECURSIVE Inserted(_, _)
Inserted(sorted, x) ==
    IF sorted # << >> /\ ComesAfter(sorted[Len(sorted)], x)
      THEN Append(Inserted(SubSeq(sorted, 1, Len(sorted) - 1), x), sorted[Len(sorted)])
      ELSE Append(sorted, x)

RECURSIVE Sorted(_, _)
Sorted(entries, sorted) ==
    IF entries = << >> THEN sorted
    ELSE Sorted(Tail(entries), Inserted(sorted, Head(entries)))

\* Object.entries(wordFreq).sort(...).slice(0, 5).map(...)
Keywords(words) == FirstFive(Sorted(WordFreq(words, << >>), << >>))

InitKeywords ==
    /\ Idle
    /\ pc = "words"
    /\ spell = "loading"
    /\ arg \in TokenTexts
    /\ result = << >>

ComputeKeywords ==
    /\ pc = "words"
    /\ result' = Keywords(arg)
    /\ pc' = "computed"
    /\ UNCHANGED << idleVars, spell, arg >>

NextKeywords == ComputeKeywords

SpecKeywords == InitKeywords /\ [][NextKeywords]_vars

(* ---------------- AnalyzerForm: reading the result stream ---------------- *)
MaxRecords == 2

\* the reports on the stream, by the fields that tell them apart; a title is
\* a plain letter, a letter of two bytes in UTF-8, or a line feed
Records == [url : {"1", "2"}, title : {"a", "é", "\n"}]

\* JSON.stringify(result): a line feed inside a string is written as \n
Stringify(r) ==
    << "{", r.url >> \o (IF r.title = "\n" THEN << "\\", "n" >> ELSE << r.title >>) \o << "}" >>

\* encoder.encode(...): UTF-8, one byte for each character but the accented one
RECURSIVE Encode(_)
Encode(chars) ==
    IF chars = << >> THEN << >>
    ELSE (IF Head(chars) = "é" THEN << "C3", "A9" >> ELSE << Head(chars) >>)
            \o Encode(Tail(chars))

\* the bytes of the response body: one line for each result; newline tells
\* whether the last line ends with a line feed as well
RECURSIVE Wire(_, _)
Wire(rs, newline) ==
    IF rs = << >> THEN << >>
    ELSE Encode(Stringify(Head(rs))
                  \o (IF Len(rs) = 1 /\ ~newline THEN << >> ELSE << "\n" >>))
            \o Wire(Tail(rs), newline)

\* decoder.decode(value, { stream: true }) on the bytes held back by the
\* previous call followed by value: an incomplete character at the end is
\* held back, a byte that starts or continues no character is replaced
RECURSIVE DecodeMutant(_)
DecodeMutant(bytes) ==
    IF bytes = << >> THEN [text |-> << >>, pending |-> << >>]
    ELSE IF Head(bytes) = "C3" /\ Len(bytes) >= 2 /\ bytes[2] = "A9"
      THEN LET d == DecodeMutant(Tail(Tail(bytes)))
           IN  [text |-> << "é" >> \o d.text, pending |-> d.pending]
    ELSE LET d == DecodeMutant(Tail(bytes))
         IN  [text |-> << (IF Head(bytes) \in {"C3", "A9"} THEN "?" ELSE Head(bytes)) >>
                          \o d.text,
              pending |-> d.pending]
RECURSIVE Decode(_)
Decode(bytes) ==
    IF bytes = << >> THEN [text |-> << >>, pending |-> << >>]
    ELSE IF bytes = << "C3" >> THEN [text |-> << >>, pending |-> bytes]
    ELSE IF Head(bytes) = "C3" /\ bytes[2] = "A9"
      THEN LET d == Decode(Tail(Tail(bytes)))
           IN  [text |-> << "é" >> \o d.text, pending |-> d.pending]
    ELSE LET d == Decode(Tail(bytes))
         IN  [text |-> << (IF Head(bytes) \in {"C3", "A9"} THEN "?" ELSE Head(bytes)) >>
                          \o d.text,
              pending |-> d.pending]

\* buffer.split('\n')
RECURSIVE SplitLines(_)
SplitLines(text) ==
    IF \A i \in 1 .. Len(text) : text[i] # "\n" THEN << text >>
    ELSE LET i == CHOOSE j \in 1 .. Len(text) :
                      text[j] = "\n" /\ \A k \in 1 .. j - 1 : text[k] # "\n"
         IN  << SubSeq(text, 1, i - 1) >> \o SplitLines(SubSeq(text, i + 1, Len(text)))

\* JSON.parse(line) inside try/catch: the result, or nothing when it throws
Parse(line) ==
    IF Len(line) = 4 /\ line[1] = "{" /\ line[2] \in {"1", "2"}
            /\ line[3] \in {"a", "é"} /\ line[4] = "}"
      THEN << [url |-> line[2], title |-> line[3]] >>
    ELSE IF Len(line) = 5 /\ line[1] = "{" /\ line[2] \in {"1", "2"}
            /\ line[3] = "\\" /\ line[4] = "n" /\ line[5] = "}"
      THEN << [url |-> line[2], title |-> "\n"] >>
    ELSE << >>

\* if (!line.trim()) continue; setResults(prev => [...prev, result])
RECURSIVE Process(_, _)
Process(ls, results) ==
    IF ls = << >> THEN results
    ELSE IF \A i \in 1 .. Len(Head(ls)) : Head(ls)[i] \in {" ", "\n"}
      THEN Process(Tail(ls), results)
    ELSE Process(Tail(ls), results \o Parse(Head(ls)))

\* setResults([]); fetch; response.body.getReader(); let buffer = ''
InitClient ==
    /\ Idle
    /\ pc = "reading"
    /\ spell = "loading"
    /\ \E sent \in UNION { [1 .. n -> Records] : n \in 0 .. MaxRecords }, newline \in BOOLEAN :
          arg = [sent |-> sent, body |-> Wire(sent, newline), value |-> << >>,
                 pending |-> << >>, buffer |-> << >>]
    /\ result = << >>

\* one turn of the read loop on a chunk of any length
ReadChunk ==
    /\ pc = "reading"
    /\ \E n \in 1 .. Len(arg.body) :
          LET value == SubSeq(arg.body, 1, n)
              d == Decode(arg.pending \o value)
              ls == SplitLines(arg.buffer \o d.text)
          IN  /\ arg' = [arg EXCEPT !.body = SubSeq(arg.body, n + 1, Len(arg.body)),
                                    !.value = value,
                                    !.pending = d.pending,
                                    !.buffer = ls[Len(ls)]]
              /\ result' = Process(SubSeq(ls, 1, Len(ls) - 1), result)
    /\ UNCHANGED << idleVars, spell, pc >>

\* done: the loop ends and what is left in the buffer is processed
ReadDone ==
    /\ pc = "reading"
    /\ arg.body = << >>
    /\ result' = Process(<< arg.buffer >>, result)
    /\ pc' = "received"
    /\ UNCHANGED << idleVars, spell, arg >>

NextClient == ReadChunk \/ ReadDone

SpecClient == InitClient /\ [][NextClient]_vars

(* ---------------- properties ---------------- *)
Indices == 1 .. Len(reports)

\* the position of crawlSite at which analyzePage has just returned analysis
AfterAnalysis == {"closePage"}

\* the crawl has ended: the generator has returned or thrown
Ended == pc \in {"done", "ended"}

\* the links of a report that pass the admission test of crawlSite
Targets(r) ==
    { StripFragment(Href(r.links[k])) :
        k \in { j \in 1 .. Len(r.links) :
                  Parses(r.links[j]) /\ SameSite(Href(r.links[j]), Hostname(startUrl)) } }

\* C1: at every point of a crawl the number of reports delivered by crawlSite
\* is at most maxPages, and so is the counter; reports of failed pages are
\* counted like the others.
C1_PageCap ==
    /\ Len(reports) <= options.maxPages
    /\ pagesCrawled <= options.maxPages
    /\ pagesCrawled = Len(reports)

\* the cap is reached with a failed page among the reports and entries left
C1_Witness ==
    /\ pc = "loop"
    /\ Len(reports) = options.maxPages
    /\ Len(queue) > 0
    /\ \E i \in Indices : reports[i].error # NoError

\* C2: no two delivered reports refer to the same URL, URLs compared in
\* normalized form (resolved to absolute, fragment stripped), whatever start
\* URL the caller passes.
C2_NoUrlTwice ==
    \A i, j \in Indices : i # j => Normalized(reports[i].url) # Normalized(reports[j].url)

\* C3: every frontier entry pushed from a discovered link, and every delivered
\* report, has the hostname of the start URL.
C3_DomainConfinement ==
    /\ \A k \in 1 .. Len(queue) : Hostname(queue[k].url) = Hostname(startUrl)
    /\ \A i \in Indices : Hostname(reports[i].url) = Hostname(startUrl)

\* the links of a page that links to another host have been through admission
C3_Witness ==
    /\ pc = "loop"
    /\ Len(queue) > 0
    /\ \E i \in Indices :
          /\ depths[i] < options.maxDepth
          /\ \E k \in 1 .. Len(reports[i].links) :
                /\ Parses(reports[i].links[k])
                /\ Hostname(reports[i].links[k]) # Hostname(startUrl)

\* C4: every frontier entry has a depth in 0 .. maxDepth; an analyzed page at
\* depth 0 is the start URL and an analyzed page at depth d > 0 is the target
\* of a link of an earlier analyzed page at depth d - 1, so it is reached by a
\* chain of at most maxDepth links through analyzed pages; with maxDepth = 0
\* only the start URL is analyzed.
C4_DepthBound ==
    /\ \A k \in 1 .. Len(queue) : queue[k].depth >= 0 /\ queue[k].depth <= options.maxDepth
    /\ \A i \in Indices :
          /\ depths[i] >= 0 /\ depths[i] <= options.maxDepth
          /\ depths[i] = 0 => reports[i].url = startUrl
          /\ depths[i] > 0 =>
                \E j \in 1 .. (i - 1) :
                    depths[j] = depths[i] - 1 /\ reports[i].url \in Targets(reports[j])
    /\ options.maxDepth = 0 => \A i \in Indices : reports[i].url = startUrl

\* a page at depth maxDepth > 0 with a link that would pass admission has been
\* reported and the generator is back at the loop head
C4_Witness ==
    /\ pc = "loop"
    /\ options.maxDepth > 0
    /\ Len(reports) > 0
    /\ depths[Len(reports)] = options.maxDepth
    /\ Targets(reports[Len(reports)]) \ visited # {}

\* C5: the first report of a crawl is the one of the start URL; with
\* maxPages = 1 there is never a second report, and a crawl that ends without
\* a fault has delivered exactly one.
C5_StartOnly ==
    /\ Len(reports) >= 1 => reports[1].url = startUrl
    /\ options.maxPages = 1 => Len(reports) <= 1
    /\ (options.maxPages = 1 /\ Ended /\ fault = "none") => Len(reports) = 1

\* a crawl with maxPages = 1 has ended on a start page full of links
C5_Witness ==
    /\ options.maxPages = 1
    /\ options.maxDepth > 0
    /\ pc = "ended"
    /\ fault = "none"
    /\ Len(reports) = 1
    /\ Len(reports[1].links) = MaxLinks
    /\ Len(queue) > 0

\* the navigation of the page cur resolved with a response that is not ok
NotOk == response # 0 /\ ~(response >= 200 /\ response <= 299)

\* C6: when the navigation resolves with a non-2xx response of status c,
\* analyzePage returns statusCode c, error "HTTP c", no links, empty fields, no
\* viewportIssues and no contentMetrics; it has run neither the static
\* extraction nor a step of the viewport sweep, and resuming the crawl after
\* this report adds nothing to the frontier.
C6_HttpShortCircuit ==
    /\ [](pc \in AfterAnalysis /\ NotOk =>
            /\ analysis = [url |-> cur.url, statusCode |-> response,
                           error |-> HttpError(response), links |-> << >>,
                           viewportIssues |-> << >>, contentMetrics |-> "absent",
                           title |-> ""]
            /\ steps = << StepSetViewport, StepGoto >>)
    /\ [][pc = "resumed" /\ analysis.error.kind = "HTTP" => queue' = queue]_vars

\* a 404 page below maxDepth has been reported and the crawl has resumed
C6_Witness ==
    /\ pc = "loop"
    /\ analysis.error = HttpError(404)
    /\ cur.depth < options.maxDepth
    /\ Len(queue) > 0
    /\ Len(reports) > 0
    /\ reports[Len(reports)].statusCode = 404

\* C7: analyzePage never throws: when a step of the protocol throws (the
\* navigation with an error other than a timeout, a DOM evaluation, a viewport
\* resize) the page still gets a report, with error set; the crawl ends
\* without a fault only when the frontier is empty or the cap is reached, so
\* the entries left after a failed page are processed.
C7_PageFailureAbsorbed ==
    /\ fault # "analyzePage"
    /\ (pc \in AfterAnalysis /\ caught # 0) => analysis.error # NoError
    /\ (pc \in {"finally", "done", "ended"} /\ fault = "none") =>
          ~LoopGuard(queue, pagesCrawled, options.maxPages)
    /\ pc \in {"yielded", "resumed"} => reports[Len(reports)] = analysis

\* a page with a step that threw was reported, and the crawl went on to a
\* page whose viewport resize threw
C7_Witness ==
    /\ pc = "closePage"
    /\ Len(reports) = 2
    /\ reports[2].error = Message
    /\ caught = StepResize(2)
    /\ analysis.error = Message

\* the navigation of the page cur resolved with a 2xx response
LoadSucceeded == response # 0 /\ response >= 200 /\ response <= 299

\* C8 as stated: the report of a page lacks contentMetrics exactly when the
\* load of the page did not succeed (non-2xx response, or navigation error,
\* a timeout included).
C8_AbsentIffLoadFailed ==
    pc \in AfterAnalysis => (analysis.contentMetrics = "absent" <=> ~LoadSucceeded)

\* C8 as amended: the report of a page lacks contentMetrics exactly when it has
\* error set, that is when the navigation resolved with a non-2xx response or
\* a step of the protocol threw to the handler of analyzePage (the navigation
\* with an error other than a timeout, or a later step after a load that
\* succeeded); a page whose navigation timed out or resolved with no response
\* and whose later steps succeeded has contentMetrics and statusCode 0.
C8_AbsentIffError ==
    /\ pc \in AfterAnalysis =>
          /\ analysis.contentMetrics = "absent" <=> (NotOk \/ caught # 0)
          /\ (response = 0 /\ caught = 0) =>
                analysis.contentMetrics = "present" /\ analysis.statusCode = 0
    /\ \A i \in Indices :
          reports[i].contentMetrics = "absent" <=> reports[i].error # NoError

\* a page that loaded with status 200 and whose static extraction threw gets a
\* report without contentMetrics
C8_Witness ==
    /\ pc = "closePage"
    /\ response = 200
    /\ caught = StepEvaluate
    /\ analysis.contentMetrics = "absent"

\* C9: the browser launched for a crawl is open until the crawl ends and is
\* closed by exactly one call of browser.close() however the crawl ends: loop
\* exit on an empty frontier or on the cap, an exception out of the loop, or
\* the consumer's return() at a yield.
C9_BrowserClosedOnce ==
    /\ closeCalls <= 1
    /\ (Ended /\ fault # "launch") => browser = "closed" /\ closeCalls = 1
    /\ pc \notin {"launch", "done", "ended"} => browser = "open" /\ closeCalls = 0
    /\ fault = "launch" => browser = "none" /\ closeCalls = 0

\* the consumer stopped the iteration with entries left in the frontier
C9_Witness ==
    /\ pc = "ended"
    /\ fault = "enqueue"
    /\ Len(queue) > 0
    /\ pagesCrawled < options.maxPages
    /\ browser = "closed"

\* C10: when the launch of the browser fails no report is delivered and
\* nothing is enqueued, and the stream of a consumer that is still reading
\* ends errored, never closed as it is after a crawl without a fault.
C10_LaunchFailure ==
    /\ fault = "launch" => reports = << >> /\ lines = << >> /\ stream # "closed"
    /\ (fault = "launch" /\ pc = "ended" /\ stream # "cancelled") => stream = "errored"
    /\ (fault = "none" /\ pc = "ended" /\ stream # "cancelled") => stream = "closed"

\* the launch failed and the route has signalled it to the reading consumer
C10_Witness ==
    /\ fault = "launch"
    /\ pc = "ended"
    /\ stream = "errored"

\* the lines of the reports delivered so far
Serialized == [i \in Indices |-> JSONLine(reports[i])]

\* C11: the lines enqueued on the response stream are the serialized reports
\* yielded by crawlSite, in the same order, each once; a yielded report is
\* missing from them only while it is handed over (between the yield and the
\* enqueue) or after the consumer has cancelled the stream, and the next
\* entry is dequeued only when every report is enqueued.
C11_StreamOrder ==
    /\ [](/\ Len(lines) <= Len(reports)
          /\ lines = SubSeq(Serialized, 1, Len(lines))
          /\ Len(reports) - Len(lines) <= 1
          /\ Len(lines) < Len(reports) => (pc = "yielded" \/ fault = "enqueue"))
    /\ [][(pc = "loop" /\ pc' = "newPage") => Len(lines) = Len(reports)]_vars

\* two different reports have been enqueued
C11_Witness ==
    /\ pc = "resumed"
    /\ Len(lines) = 2
    /\ lines[1].json.url # lines[2].json.url
    /\ "error" \in DOMAIN lines[2].json

\* C12: the stream leaves the readable state once and for all: it is closed
\* only by the route after the loop has exited on an empty frontier or on the
\* cap, with every report enqueued, and it is errored only when a fault has
\* escaped the crawl; once it is not readable its state never changes again
\* and nothing more is enqueued.
C12_OneTerminalState ==
    /\ [](stream = "closed" =>
            /\ pc = "ended" /\ fault = "none"
            /\ ~LoopGuard(queue, pagesCrawled, options.maxPages)
            /\ lines = Serialized)
    /\ [](stream = "errored" => pc = "ended" /\ fault # "none")
    /\ [](pc = "ended" => stream # "readable")
    /\ [][stream # "readable" => (stream' = stream /\ lines' = lines)]_vars

\* the stream has been errored after a report was enqueued
C12_Witness ==
    /\ stream = "errored"
    /\ Len(lines) >= 1
    /\ fault = "pageClose"

\* the entries crawlSite is to push for the links of the report r of a page at
\* depth d, in the order of the links
Pushed(r, d) ==
    LET admitted == SelectSeq(r.links,
                        LAMBDA l : /\ Parses(l)
                                   /\ Hostname(l) = allowedDomain
                                   /\ Protocol(l) \in {"http", "https"}
                                   /\ Normalized(l) \notin visited)
    IN  [k \in 1 .. Len(admitted) |-> [url |-> Normalized(admitted[k]), depth |-> d + 1]]

C19_VisitedBeforeAnalysis ==
    /\ [](pc \in {"newPage", "intercept", "analyze", "closePage", "yielded", "resumed"}
            => cur.url \in visited)
    /\ [][(pc = "loop" /\ pc' = "newPage") => visited' = visited \cup {Head(queue).url}]_vars
    /\ [][visited \subseteq visited']_vars

\* the second URL of a crawl is under analysis
C19_Witness ==
    /\ pc = "analyze"
    /\ Cardinality(visited) = 2
    /\ cur.url # startUrl

\* C20: dequeuing an entry whose URL is in the visited set only removes the
\* entry: no page is opened, no report delivered or enqueued, no link pushed,
\* and the counter and the visited set stay as they are; at every loop head
\* the counter, the number of reports and the size of the visited set are
\* equal.
C20_Discard ==
    /\ [][(/\ pc = "loop"
           /\ LoopGuard(queue, pagesCrawled, options.maxPages)
           /\ Head(queue).url \in visited)
          => /\ queue' = Tail(queue)
             /\ pc' = "loop"
             /\ UNCHANGED << visited, pagesCrawled, openPages, reports, lines, cur,
                             analysis, fault >>]_vars
    /\ [](pc = "loop" =>
            /\ pagesCrawled = Len(reports)
            /\ pagesCrawled = Cardinality(visited))

\* the start page linked twice to the same page: the frontier is empty after
\* two reports with the cap not reached, so the second entry was discarded
C20_Witness ==
    /\ pc = "loop"
    /\ options.maxPages = 3
    /\ options.maxDepth >= 1
    /\ queue = << >>
    /\ Len(reports) = 2
    /\ Len(reports[1].links) = 2
    /\ reports[1].links[1] = reports[1].links[2]
    /\ Normalized(reports[1].links[1]) = reports[2].url

\* C14: every crawl ends: the traversal loop exits, the browser is closed and
\* the stream leaves the readable state; a frontier that is empty at the loop
\* head makes the loop exit without a fault, whatever the counter is, and the
\* stream is then closed normally unless the consumer cancelled it.
C14_Terminates ==
    /\ <>[](pc = "ended" /\ stream # "readable")
    /\ [][(pc = "loop" /\ queue = << >>) => (pc' = "finally" /\ fault' = "none")]_vars
    /\ (pc = "loop" /\ queue = << >> /\ pagesCrawled < options.maxPages)
          ~> (pc = "ended" /\ fault = "none" /\ stream \in {"closed", "cancelled"})
    /\ [](pc = "ended" /\ fault = "none" /\ stream # "cancelled" => stream = "closed")

\* a crawl of two pages ended normally with the frontier exhausted below the cap
C14_Witness ==
    /\ pc = "ended"
    /\ queue = << >>
    /\ Len(reports) = 2
    /\ pagesCrawled < options.maxPages
    /\ fault = "none"
    /\ stream = "closed"

\* C13: the maxPages that GET passes to crawlSite is an integer from 1 to 100
\* for every value of the request parameter, and is 20 when the parameter is
\* absent.
C13_MaxPagesClamped ==
    pc = "computed" =>
        /\ ~result.nan
        /\ result.val \in 1 .. 100
        /\ (~arg.present => result.val = 20)

\* the page has a title and a meta description of the lengths that earn the
\* full credit, an h1 element, no image without alt and more than 300 words
FullCredit(f) ==
    /\ f.titleLen \in 10 .. 60
    /\ f.metaLen \in 50 .. 160
    /\ \E i \in 1 .. Len(f.headings) : f.headings[i].level = 1
    /\ f.missingAltTags = 0
    /\ f.wordCount > 300

\* C15: seoScore is an integer from 0 to 100 for every page, and at least 80
\* for a page with a title of 10 to 60 characters, a meta description of 50 to
\* 160 characters, an H1, no image without alt and more than 300 words,
\* whatever the two bonuses are.
C15_SeoScore ==
    pc = "computed" =>
        /\ result \in 0 .. 100
        /\ FullCredit(arg) => result >= 80

\* such a page whose h1 element has no text and whose headings skip a level
\* scores exactly 80
C15_Witness ==
    /\ pc = "computed"
    /\ FullCredit(arg)
    /\ ~H1Of(arg.headings).present
    /\ result = 80

\* C16: for every body text the word count and the sentence count are at
\* least 1 (the two divisors of the readability formula are not zero), every
\* token counts for at least one syllable, and readabilityScore is an integer
\* from 0 to 100.
C16_Readability ==
    pc = "computed" =>
        /\ result.wordCount >= 1
        /\ result.sentenceCount >= 1
        /\ Len(result.syllables) = result.wordCount
        /\ \A i \in 1 .. Len(result.syllables) : result.syllables[i] >= 1
        /\ result.readabilityScore \in 0 .. 100

\* a text of white space and full stops only: its tokens have no letter
C16_Witness ==
    /\ pc = "computed"
    /\ arg # << >>
    /\ \A i \in 1 .. Len(arg) : arg[i] \in WhiteSpace \cup SentenceEnds
    /\ \E i \in 1 .. Len(arg) : arg[i] \in WhiteSpace
    /\ \E i \in 1 .. Len(arg) : arg[i] \in SentenceEnds
    /\ result.wordCount = 2
    /\ result.sentenceCount = 3
    /\ result.readabilityScore = 100

\* C17: a report made while the spell checker is absent (the dictionary is not
\* loaded yet, or failed to load) has no possible typo and no error; once the
\* load has failed the spell checker stays absent, and once it is settled it
\* does not change.
C17_SpellAbsent ==
    /\ [](\A i \in 1 .. Len(result) :
            result[i].spell # "loaded" =>
                /\ result[i].possibleTypos = << >>
                /\ result[i].error = NoError)
    /\ [][spell = "failed" => spell' = "failed"]_vars
    /\ [][(spell = "failed" /\ Len(result') > Len(result))
            => result'[Len(result')].possibleTypos = << >>]_vars

\* two pages with a misspelled word, one analyzed before the load failed and
\* one after
C17_Witness ==
    /\ spell = "failed"
    /\ Len(result) = 2
    /\ result[1].spell = "loading"
    /\ result[2].spell = "failed"
    /\ \E i \in 1 .. Len(arg) : arg[i] = "wrod"

\* the entries of q2 that are not in its prefix q
Added(q, q2) == SubSeq(q2, Len(q) + 1, Len(q2))

\* the link l of a page passes the admission test of crawlSite
Admissible(l) ==
    /\ Parses(l)
    /\ Hostname(l) = Hostname(startUrl)
    /\ Protocol(l) \in {"http", "https"}
    /\ Normalized(l) \notin visited

C22_MalformedLink ==
    /\ [](\A k \in 1 .. Len(queue) : queue[k].depth > 0 => Parses(queue[k].url))
    /\ [][(/\ pc = "resumed"
           /\ \E j \in 1 .. Len(analysis.links) : ~Parses(analysis.links[j]))
          => /\ pc' = "loop"
             /\ fault' = "none"
             /\ stream' = stream
             /\ Len(Added(queue, queue')) <=
                  Cardinality({ j \in 1 .. Len(analysis.links) : Parses(analysis.links[j]) })
             /\ cur.depth < options.maxDepth =>
                  \A j \in 1 .. Len(analysis.links) :
                      Admissible(analysis.links[j]) =>
                          \E k \in 1 .. Len(Added(queue, queue')) :
                              Added(queue, queue')[k].url = Normalized(analysis.links[j])]_vars

\* the first link of the start page does not parse and the second is pushed
C22_Witness ==
    /\ pc = "loop"
    /\ fault = "none"
    /\ Len(reports) = 1
    /\ Len(reports[1].links) = 2
    /\ ~Parses(reports[1].links[1])
    /\ Len(queue) = 1
    /\ queue[1].url = Normalized(reports[1].links[2])

\* the analysis performed the operation op (on the viewport vp)
Performed(op, vp) ==
    \E k \in 1 .. Len(result.operations) : result.operations[k] = Event(op, vp)

\* C23: when the navigation times out analyzePage goes on with the static
\* extraction, and when no later step throws it goes through the three
\* viewports and the scoring and returns a report with statusCode 0, no error
\* and contentMetrics; when the navigation fails in another way the report
\* has error set and no contentMetrics, and nothing is extracted.
C23_TimeoutTolerated ==
    pc = "computed" =>
        /\ (arg.nav = "timeout" /\ arg.failAt \notin {StepSetViewport, StepGoto}) =>
              /\ Performed("evaluate", "")
              /\ arg.failAt = 0 =>
                    /\ result.report.statusCode = 0
                    /\ result.report.error = NoError
                    /\ result.report.contentMetrics = "present"
                    /\ Len(result.report.viewportIssues) = 3
                    /\ \A vp \in {"Desktop", "Tablet", "Mobile"} : Performed("measure", vp)
                    /\ Performed("score", "")
        /\ arg.failAt = StepGoto =>
              /\ result.report.error # NoError
              /\ result.report.contentMetrics = "absent"
              /\ ~Performed("evaluate", "")

\* a page whose navigation timed out was analyzed to the end
C23_Witness ==
    /\ pc = "computed"
    /\ arg.nav = "timeout"
    /\ arg.failAt = 0
    /\ result.report.statusCode = 0
    /\ result.report.contentMetrics = "present"
    /\ Performed("score", "")

\* the place of an operation in the protocol of a page
Place(e) ==
    LET v == CASE e.viewport = "Desktop" -> 0
               [] e.viewport = "Tablet" -> 3
               [] e.viewport = "Mobile" -> 6
               [] OTHER -> 0
    IN  CASE e.op = "setViewport" -> 1
          [] e.op = "goto" -> 2
          [] e.op = "evaluate" -> 3
          [] e.op = "resize" -> 4 + v
          [] e.op = "measure" -> 5 + v
          [] e.op = "screenshot" -> 6 + v
          [] e.op = "score" -> 13

\* C24: the operations of an analysis follow the order load, static
\* extraction, Desktop, Tablet, Mobile, scoring, each at most once; a report
\* with contentMetrics has three viewport entries, for Desktop, Tablet and
\* Mobile in this order, after all the operations of the protocol, and a
\* report without contentMetrics has none and no scoring.
C24_ProtocolOrder ==
    pc = "computed" =>
        /\ \A a, b \in 1 .. Len(result.operations) :
              a < b => Place(result.operations[a]) < Place(result.operations[b])
        /\ result.report.contentMetrics = "present" =>
              /\ Len(result.report.viewportIssues) = 3
              /\ result.report.viewportIssues[1].viewport = "Desktop"
              /\ result.report.viewportIssues[2].viewport = "Tablet"
              /\ result.report.viewportIssues[3].viewport = "Mobile"
              /\ Performed("evaluate", "")
              /\ \A vp \in {"Desktop", "Tablet", "Mobile"} :
                    Performed("resize", vp) /\ Performed("measure", vp)
              /\ result.operations[Len(result.operations)] = Event("score", "")
        /\ result.report.contentMetrics = "absent" =>
              /\ result.report.viewportIssues = << >>
              /\ ~Performed("score", "")

\* an analysis that took a screenshot at each of the three viewports
C24_Witness ==
    /\ pc = "computed"
    /\ result.report.contentMetrics = "present"
    /\ Len(result.operations) = 13
    /\ result.operations[6] = Event("screenshot", "Desktop")
    /\ result.operations[10] = Event("resize", "Mobile")

\* C25: in every iteration of the sweep whose measurement returned, a
\* screenshot is attempted exactly when an issue was detected (horizontal
\* scroll, overflowing elements or small tap targets), and its path is on the
\* entry of that viewport when it was saved.
C25_ScreenshotOnIssue ==
    pc = "computed" =>
        \A i \in 1 .. 3 :
            (Performed("measure", Viewports[i]) /\ result.caught # StepMeasure(i)) =>
                LET detected == \/ arg.issues[i].horizontalScroll
                                \/ arg.issues[i].overflowingElements > 0
                                \/ arg.issues[i].smallTapTargets > 0
                IN  /\ detected <=> Performed("screenshot", Viewports[i])
                    /\ (/\ detected
                        /\ arg.shots[i] = "saved"
                        /\ result.report.contentMetrics = "present")
                          => result.report.viewportIssues[i].screenshotPath # Undefined

\* no heading is more than one level below the heading before it
NoSkipBetween(hs) == \A i \in 2 .. Len(hs) : hs[i].level <= hs[i - 1].level + 1

\* C26 as stated: the hierarchy bonus is applied exactly when there is a
\* heading and no heading is more than one level below the heading before it.
C26_BonusIffNoSkip ==
    pc = "computed" =>
        result = IF Len(arg.headings) > 0 /\ NoSkipBetween(arg.headings)
                   THEN Cap(SeoWithKeywords(arg) + 10)
                   ELSE SeoWithKeywords(arg)

\* C26 as amended: the bonus is applied exactly when there is a heading, the
\* first heading is an h1, and no heading is more than one level below the
\* heading before it.
C26_BonusIffNoSkipFromH1 ==
    pc = "computed" =>
        result = IF /\ Len(arg.headings) > 0
                    /\ arg.headings[1].level = 1
                    /\ NoSkipBetween(arg.headings)
                   THEN Cap(SeoWithKeywords(arg) + 10)
                   ELSE SeoWithKeywords(arg)

\* a page whose headings are an h2 and an h3 gets no bonus
C26_Witness ==
    /\ pc = "computed"
    /\ Len(arg.headings) = 2
    /\ arg.headings[1].level = 2
    /\ arg.headings[2].level = 3
    /\ result = SeoWithKeywords(arg)
    /\ result < 100

\* the cleaned tokens of the text that can be keywords, in text order
Candidates ==
    SelectSeq([i \in 1 .. Len(arg) |-> Lowered(arg[i])],
              LAMBDA w : LongEnough(w) /\ w \notin StopWords)

Occurrences(w) == Cardinality({ i \in 1 .. Len(Candidates) : Candidates[i] = w })
FirstAt(w) == CHOOSE i \in 1 .. Len(Candidates) :
                  Candidates[i] = w /\ \A j \in 1 .. i - 1 : Candidates[j] # w

\* w ranks before v: more occurrences, or as many and an earlier first one
RanksBefore(w, v) ==
    \/ Occurrences(w) > Occurrences(v)
    \/ Occurrences(w) = Occurrences(v) /\ FirstAt(w) < FirstAt(v)

\* C27: the keywords are the distinct candidates of the text with the
\* highest numbers of occurrences, at most five, each with its exact number
\* of occurrences, in descending order of that number and, for equal
\* numbers, in the order of their first occurrence, which also decides the
\* candidates that are left out.
C27_TopFiveKeywords ==
    pc = "computed" =>
        LET distinct == { Candidates[i] : i \in 1 .. Len(Candidates) }
            listed == { result[k].word : k \in 1 .. Len(result) }
        IN  /\ Len(result) = IF Cardinality(distinct) < 5 THEN Cardinality(distinct) ELSE 5
            /\ listed \subseteq distinct
            /\ Cardinality(listed) = Len(result)
            /\ \A k \in 1 .. Len(result) :
                  result[k].count = Count(Occurrences(result[k].word))
            /\ \A k \in 1 .. Len(result) - 1 : RanksBefore(result[k].word, result[k + 1].word)
            /\ \A w \in distinct \ listed :
                  \A k \in 1 .. Len(result) : RanksBefore(result[k].word, w)

\* C28: at most one page handle is open at any time, and one is open only
\* between browser.newPage and page.close of the URL being processed; an
\* entry is dequeued only when no page is open and every analyzed page is
\* counted, reported and enqueued on the stream.
C28_SingleFlight ==
    /\ [](openPages <= 1)
    /\ [](openPages = 1 => pc \in {"intercept", "analyze", "closePage", "finally"})
    /\ [](pc \in {"intercept", "analyze", "closePage"} =>
            openPages = 1 /\ Cardinality(visited) = Len(reports) + 1)
    /\ [][(pc = "loop" /\ pc' = "newPage") =>
            /\ openPages = 0
            /\ Cardinality(visited) = pagesCrawled
            /\ Len(reports) = pagesCrawled
            /\ Len(lines) = pagesCrawled]_vars

\* the second page of a crawl is under analysis with the first one reported
C28_Witness ==
    /\ pc = "analyze"
    /\ openPages = 1
    /\ Len(reports) = 1
    /\ Len(lines) = 1
    /\ Len(queue) = 1

\* C29: the page of a URL is closed when its analysis has returned, with or
\* without an error in the report; when request interception or page.close
\* fails the page is open in the finally block and is closed with the
\* browser; no page is open when the crawl has ended.
C29_PageReleased ==
    /\ [](pc \in {"yielded", "resumed", "loop", "done", "ended"} => openPages = 0)
    /\ []((pc = "finally" /\ fault \in {"setRequestInterception", "pageClose"})
            => openPages = 1)
    /\ [][(pc = "closePage" /\ pc' = "yielded") => (openPages = 1 /\ openPages' = 0)]_vars
    /\ [][pc = "finally" => openPages' = 0]_vars

\* after a reported page, request interception failed on the next one
C29_Witness ==
    /\ pc = "ended"
    /\ fault = "setRequestInterception"
    /\ Len(reports) = 1
    /\ reports[1].error = NoError
    /\ Cardinality(visited) = 2
    /\ openPages = 0

\* C30: whatever the chunks of the response body are, the results list is at
\* every moment the results whose lines have been received in full, in the
\* order sent, and when the stream has ended it is exactly the results sent,
\* also when the last line has no line feed.
C30_ChunkingIndependent ==
    /\ (pc \in {"reading", "received"} =>
            /\ Len(result) <= Len(arg.sent)
            /\ result = SubSeq(arg.sent, 1, Len(result)))
    /\ (pc = "received" => result = arg.sent)

\* two results received, the last line without a line feed and its closing
\* brace in a chunk of its own, the accented letter split over two chunks
C30_Witness ==
    /\ pc = "received"
    /\ Len(result) = 2
    /\ result[1].title = "\n"
    /\ result[2].title = "é"
    /\ arg.value = << "A9", "}" >>
    /\ arg.buffer # << >>

====
